---- MODULE Spec2Model ----
(***************************************************************************)
(* Model of etkin-yaricap-galaxy.py: a sequential pipeline                 *)
(*   resolve -> fetch -> build canvas -> render contours -> fit ellipse    *)
(*   -> legend -> show -> print.                                           *)
(*                                                                         *)
(* Pixel intensities are floating-point numbers.  They are modelled as a   *)
(* binary floating-point format with Prec significant bits: a number is a  *)
(* natural n standing for n / One, and every arithmetic result is rounded  *)
(* to the nearest representable number (ties to even), as IEEE-754         *)
(* arithmetic of numpy does.  The semi-major axis of an isophote is        *)
(* counted in units of 1/SmaScale hundredths of a pixel.                   *)
(***************************************************************************)
EXTENDS Integers, Sequences, FiniteSets

(* ------------------------------ bounds -------------------------------- *)
Prec == 3
MaxSma == 2
SmaScale == 3
MaxRows == 1
MaxImages == 1

(* ---------------------- floating-point arithmetic --------------------- *)
RECURSIVE Pow2(_)
Pow2(n) == IF n = 0 THEN 1 ELSE 2 * Pow2(n - 1)

\* 1.0; the unit is fine enough that (max-min)/3 keeps Prec significant bits
One == Pow2(2 * Prec)

\* spacing of the representable numbers at x
RECURSIVE Quantum(_)
Quantum(x) == IF x < Pow2(Prec) THEN 1 ELSE 2 * Quantum(x \div 2)

\* num/den rounded to Prec significant bits, round-half-to-even
RoundRat(num, den) ==
    LET q   == Quantum(num \div den)
        u   == den * q
        k   == num \div u
        rem == num - k * u
    IN  IF 2 * rem < u THEN k * q
        ELSE IF 2 * rem > u THEN (k + 1) * q
        ELSE IF k % 2 = 0 THEN k * q ELSE (k + 1) * q

RoundF(x) == RoundRat(x, 1)

Representable(n) == RoundF(n) = n

\* floor of the square root of y, for y <= bound * bound
ISqrt(y, bound) == CHOOSE r \in 0..bound : r * r <= y /\ (r + 1) * (r + 1) > y

\* correctly rounded square root of x/One, in units of 1/One
FSqrt(x) ==
    LET y  == x * One
        r0 == ISqrt(y, x + One)
        q  == Quantum(r0)
        lo == (r0 \div q) * q
        hi == lo + q
        s  == (lo + hi) * (lo + hi)
    IN  IF 4 * y < s THEN lo
        ELSE IF 4 * y > s THEN hi
        ELSE IF (lo \div q) % 2 = 0 THEN lo ELSE hi

(* ------------------------------ helpers ------------------------------- *)
SeqMin(s) == CHOOSE m \in {s[i] : i \in 1..Len(s)} : \A i \in 1..Len(s) : m <= s[i]
SeqMax(s) == CHOOSE m \in {s[i] : i \in 1..Len(s)} : \A i \in 1..Len(s) : m >= s[i]
SetMin(S) == CHOOSE m \in S : \A x \in S : m <= x

None == <<>>
Some(v) == <<v>>

(* --------------------- plot_image_and_contours ------------------------ *)
\* a stretch that forgets the +1 offset
StretchNoOffset(d) == FSqrt(d)

\* line 29: np.sqrt(data + 1), element by element
Stretch(d) == FSqrt(RoundF(d + One))

NumLevels == 4

\* a linspace read one element too early, as by the slice [0:2]
LinspaceShifted(start, stop, i) ==
    LET delta == RoundF(stop - start)
        step  == RoundRat(delta, NumLevels - 1)
    IN  RoundF(RoundF((i - 1) * step) + start)

\* line 33: element i (0-based) of np.linspace(start, stop, 4):
\* step = delta/div; y = arange(num)*step + start; y[-1] = stop
Linspace(start, stop, i) ==
    LET div   == NumLevels - 1
        delta == RoundF(stop - start)
        step  == RoundRat(delta, div)
        off   == IF step = 0
                 THEN RoundRat(RoundRat(i * One, div) * delta, One)
                 ELSE RoundF(i * step)
    IN  IF i = div THEN stop ELSE RoundF(off + start)

\* line 33: [1:-1] keeps elements 1 .. num-2
InteriorLevels(lo, hi) == [i \in 1..(NumLevels - 2) |-> Linspace(lo, hi, i)]

\* line 34: what ax.contour(sqrt_data, levels, ...) can answer.  The script
\* passes the levels on unchecked; the plotting library rejects levels that
\* are not strictly increasing ("Contour levels must be increasing"), and,
\* depending on its release, first replaces levels of which none lies
\* strictly inside (zmin, zmax) by the single level [zmin].
ContourOutcomes(lv, zmin, zmax) ==
    LET increasing == \A i \in 1..(Len(lv) - 1) : lv[i] < lv[i + 1]
        inside     == {i \in 1..Len(lv) : zmin < lv[i] /\ lv[i] < zmax}
        ok(l)      == [raised |-> FALSE, levels |-> l]
        err        == [raised |-> TRUE, levels |-> <<>>]
        resetting  == IF inside = {} THEN ok(<<zmin>>)
                      ELSE IF increasing THEN ok(lv) ELSE err
        plain      == IF increasing THEN ok(lv) ELSE err
    IN  {resetting, plain}

(* ------------------------ fit_and_plot_ellipse ------------------------ *)
\* a scan whose band includes the upper level
ScanInclusive(isos, lv, i) ==
    LET hits == {j \in i..Len(isos) : lv[1] < isos[j].intens /\ isos[j].intens <= lv[2]}
    IN  IF Len(lv) < 2 THEN [status |-> "IndexError", index |-> 0]
        ELSE IF hits = {} THEN [status |-> "none", index |-> 0]
        ELSE [status |-> "match", index |-> SetMin(hits)]

\* lines 43-57: the for loop with the chained comparison
\* contour_levels[0] < iso.intens < contour_levels[1]; the second operand is
\* only indexed when the first comparison is true
RECURSIVE Scan(_, _, _)
Scan(isos, lv, i) ==
    IF i > Len(isos) THEN [status |-> "none", index |-> 0]
    ELSE IF lv[1] < isos[i].intens
         THEN IF Len(lv) < 2 THEN [status |-> "IndexError", index |-> 0]
              ELSE IF isos[i].intens < lv[2]
                   THEN [status |-> "match", index |-> i]
                   ELSE Scan(isos, lv, i + 1)
         ELSE Scan(isos, lv, i + 1)

\* an overlay that draws every isophote of the list
OverlayAll(isos, k, center) ==
    [j \in 1..Len(isos) |-> [kind |-> "boundary", arg |-> <<isos[j].intens, isos[j].sma>>]]
    \o << [kind |-> "center", arg |-> <<center[2], center[1]>>],
          [kind |-> "segment", arg |-> <<isos[k].sma>>] >>

\* lines 45-54: boundary of the isophote, centre marker, semi-major segment
Overlay(isos, k, center) ==
    << [kind |-> "boundary", arg |-> <<isos[k].intens, isos[k].sma>>],
       [kind |-> "center", arg |-> <<center[2], center[1]>>],
       [kind |-> "segment", arg |-> <<isos[k].sma>>] >>

(* ------------------------------ main ---------------------------------- *)
\* line 80: f"{radius:.2f}", the radius in hundredths of a pixel
Format2f(r) ==
    LET k   == r \div SmaScale
        rem == r % SmaScale
    IN  IF 2 * rem < SmaScale THEN k
        ELSE IF 2 * rem > SmaScale THEN k + 1
        ELSE IF k % 2 = 0 THEN k ELSE k + 1

RadiusLine(r) == [text |-> "Radius of the ellipse in the blue region", value |-> <<Format2f(r)>>]
FailureLine == [text |-> "Could not determine the ellipse radius.", value |-> <<>>]

\* line 79: `if radius:` -- None and 0.0 are both false
Truthy(r) == r # None /\ r[1] # 0

(* ------------------------------ inputs -------------------------------- *)
\* data.shape of the fetched image: 1 row, 2 columns
ImageShape == <<1, 2>>
NumPixels == ImageShape[1] * ImageShape[2]

\* line 38: np.array(data.shape) // 2
Center == <<ImageShape[1] \div 2, ImageShape[2] \div 2>>

PixelValues == {0} \cup {n \in One..(8 * One) : Representable(n)}
Images == [1..NumPixels -> PixelValues]

\* Mean intensities an isophote fitted to the stretched image can carry:
\* values between the image's extremes, among them the levels themselves.
IntensValues(img, lv) ==
    LET zmin == SeqMin(img)
        zmax == SeqMax(img)
        mid  == RoundRat(lv[1] + lv[Len(lv)], 2)
    IN  {v \in {zmin, zmax, mid} \cup {lv[i] : i \in 1..Len(lv)} : zmin <= v /\ v <= zmax}

\* line 41: the lists ellipse.fit_image() can return, ordered by increasing
\* semi-major axis
RECURSIVE IsoListsFrom(_, _)
IsoListsFrom(I, s) ==
    IF s > MaxSma THEN {<<>>}
    ELSE LET rest == IsoListsFrom(I, s + 1)
         IN  rest \cup {<<[intens |-> v, sma |-> s]>> \o r : v \in I, r \in rest}

IsoLists(img, lv) == IsoListsFrom(IntensValues(img, lv), 0)

(* ------------------------------- state -------------------------------- *)
VARIABLES pc, error, stages, coords, data, canvas, sqrt_data, levels,
          contour_levels, isolist, radius, shown, output

vars == <<pc, error, stages, coords, data, canvas, sqrt_data, levels,
          contour_levels, isolist, radius, shown, output>>

NoError == <<>>

Init ==
    /\ pc = "resolve"
    /\ error = NoError
    /\ stages = <<>>
    /\ coords = <<>>
    /\ data = <<>>
    /\ canvas = <<>>
    /\ sqrt_data = <<>>
    /\ levels = <<>>
    /\ contour_levels = <<>>
    /\ isolist = <<>>
    /\ radius = None
    /\ shown = FALSE
    /\ output = <<>>

\* an unhandled exception leaves main; error records it and the stage it left
Raise(e, stage) == pc' = "aborted" /\ error' = <<e, stage>>

\* lines 10-13, called at line 61: the first row of the catalog's answer
get_object_coordinates ==
    /\ pc = "resolve"
    /\ \E rows \in 0..MaxRows :
          IF rows = 0
          THEN /\ Raise("LookupError", "resolve")
               /\ UNCHANGED <<coords, stages>>
          ELSE /\ coords' = <<"RA", "DEC">>
               /\ pc' = "fetch"
               /\ stages' = Append(stages, "resolve")
               /\ UNCHANGED error
    /\ UNCHANGED <<data, canvas, sqrt_data, levels, contour_levels, isolist,
                   radius, shown, output>>

\* a fetch that records the empty list and carries on
get_image_data_swallowing ==
    /\ pc = "fetch"
    /\ \E n \in 0..MaxImages, img \in Images :
          /\ error' = IF n = 0 THEN <<"IndexError", "fetch">> ELSE error
          /\ data' = IF n = 0 THEN data ELSE img
    /\ pc' = "setup"
    /\ stages' = Append(stages, "fetch")
    /\ UNCHANGED <<coords, canvas, sqrt_data, levels, contour_levels, isolist,
                   radius, shown, output>>

\* lines 15-17, called at line 64: the first image of the service's list
get_image_data ==
    /\ pc = "fetch"
    /\ \E n \in 0..MaxImages, img \in Images :
          IF n = 0
          THEN /\ Raise("IndexError", "fetch")
               /\ UNCHANGED <<data, stages>>
          ELSE /\ data' = img
               /\ pc' = "setup"
               /\ stages' = Append(stages, "fetch")
               /\ UNCHANGED error
    /\ UNCHANGED <<coords, canvas, sqrt_data, levels, contour_levels, isolist,
                   radius, shown, output>>

\* lines 19-26, called at line 67
setup_plot ==
    /\ pc = "setup"
    /\ canvas' = << [kind |-> "axes", arg |-> <<>>] >>
    /\ pc' = "contours"
    /\ stages' = Append(stages, "setup")
    /\ UNCHANGED <<error, coords, data, sqrt_data, levels, contour_levels,
                   isolist, radius, shown, output>>

\* lines 28-35, called at line 70
plot_image_and_contours ==
    /\ pc = "contours"
    /\ LET s    == [i \in 1..Len(data) |-> Stretch(data[i])]
           lv   == InteriorLevels(SeqMin(s), SeqMax(s))
           img  == Append(canvas, [kind |-> "image", arg |-> s])
       IN  /\ sqrt_data' = s
           /\ levels' = lv
           /\ \E o \in ContourOutcomes(lv, SeqMin(s), SeqMax(s)) :
                 IF o.raised
                 THEN /\ Raise("ValueError", "contours")
                      /\ canvas' = img
                      /\ UNCHANGED <<contour_levels, stages>>
                 ELSE /\ contour_levels' = o.levels
                      /\ canvas' = Append(img, [kind |-> "contour", arg |-> o.levels])
                      /\ pc' = "fit"
                      /\ stages' = Append(stages, "contours")
                      /\ UNCHANGED error
    /\ UNCHANGED <<coords, data, isolist, radius, shown, output>>

\* lines 37-57, called at line 73
fit_and_plot_ellipse ==
    /\ pc = "fit"
    /\ \E isos \in IsoLists(sqrt_data, contour_levels) :
          LET r == Scan(isos, contour_levels, 1)
          IN  /\ isolist' = isos
              /\ IF r.status = "IndexError"
                 THEN /\ Raise("IndexError", "fit")
                      /\ UNCHANGED <<canvas, radius, stages>>
                 ELSE /\ IF r.status = "match"
                         THEN /\ canvas' = canvas \o Overlay(isos, r.index, Center)
                              /\ radius' = Some(isos[r.index].sma)
                         ELSE /\ radius' = None
                              /\ UNCHANGED canvas
                      /\ pc' = "legend"
                      /\ stages' = Append(stages, "fit")
                      /\ UNCHANGED error
    /\ UNCHANGED <<coords, data, sqrt_data, levels, contour_levels, shown, output>>

\* a legend step after which the result is printed at once
legend_then_print ==
    /\ pc = "legend"
    /\ canvas' = Append(canvas, [kind |-> "legend", arg |-> <<>>])
    /\ pc' = "print"
    /\ stages' = Append(stages, "legend")
    /\ UNCHANGED <<error, coords, data, sqrt_data, levels, contour_levels,
                   isolist, radius, shown, output>>

\* line 76: ax.legend()
legend ==
    /\ pc = "legend"
    /\ canvas' = Append(canvas, [kind |-> "legend", arg |-> <<>>])
    /\ pc' = "show"
    /\ stages' = Append(stages, "legend")
    /\ UNCHANGED <<error, coords, data, sqrt_data, levels, contour_levels,
                   isolist, radius, shown, output>>

\* line 77: plt.show()
show ==
    /\ pc = "show"
    /\ shown' = TRUE
    /\ pc' = "print"
    /\ stages' = Append(stages, "show")
    /\ UNCHANGED <<error, coords, data, canvas, sqrt_data, levels,
                   contour_levels, isolist, radius, output>>

\* a report that prints nothing when no radius was found
print_result_silent ==
    /\ pc = "print"
    /\ output' = IF Truthy(radius) THEN Append(output, RadiusLine(radius[1])) ELSE output
    /\ pc' = "done"
    /\ stages' = Append(stages, "print")
    /\ UNCHANGED <<error, coords, data, canvas, sqrt_data, levels,
                   contour_levels, isolist, radius, shown>>

\* lines 79-82
print_result ==
    /\ pc = "print"
    /\ output' = IF Truthy(radius)
                 THEN Append(output, RadiusLine(radius[1]))
                 ELSE Append(output, FailureLine)
    /\ pc' = "done"
    /\ stages' = Append(stages, "print")
    /\ UNCHANGED <<error, coords, data, canvas, sqrt_data, levels,
                   contour_levels, isolist, radius, shown>>

\* lines 59-82
Next ==
    \/ get_object_coordinates
    \/ get_image_data
    \/ setup_plot
    \/ plot_image_and_contours
    \/ fit_and_plot_ellipse
    \/ legend
    \/ show
    \/ print_result

Spec == Init /\ [][Next]_vars

(* ------------------------------ claims -------------------------------- *)
StageOrder == <<"resolve", "fetch", "setup", "contours", "fit", "legend", "show", "print">>
PostFit == pc \in {"legend", "show", "print", "done"}
TwoLevels == Len(contour_levels) = 2
InBand(i) == contour_levels[1] < isolist[i].intens /\ isolist[i].intens < contour_levels[2]
Matches == {i \in 1..Len(isolist) : InBand(i)}
FirstMatch == SetMin(Matches)
Drawn(kind) == {i \in 1..Len(canvas) : canvas[i].kind = kind}
Rendered == levels # <<>>
zmin == SeqMin(sqrt_data)
zmax == SeqMax(sqrt_data)
Abs(x) == IF x < 0 THEN -x ELSE x

\* C1: once fit_and_plot_ellipse has returned, if some isophote has an
\* intensity strictly between the two contour levels, the returned radius is
\* the semi-major axis of the one with the smallest index; isophotes whose
\* intensity equals a level, and isophotes after the first match, play no part.
C1_FirstMatchRadius ==
    (PostFit /\ TwoLevels /\ Matches # {}) => radius = Some(isolist[FirstMatch].sma)

\* C1 witness: the first isophote sits exactly on the lower level, the second
\* and the third are both in the band, and the second one's radius is returned.
C1_Witness ==
    /\ pc = "legend" /\ TwoLevels /\ Len(isolist) = 3
    /\ isolist[1].intens = contour_levels[1]
    /\ Matches = {2, 3}
    /\ radius = Some(isolist[2].sma)

\* C2: if no isophote of the fitted list has an intensity strictly between the
\* two contour levels, fit_and_plot_ellipse returns None, and the finished run
\* has drawn the legend, shown the plot and printed exactly the failure line.
C2_NoMatchFailure ==
    (PostFit /\ TwoLevels /\ Matches = {}) =>
        /\ radius = None
        /\ pc = "done" =>
              /\ output = <<FailureLine>>
              /\ shown
              /\ Drawn("legend") # {}
              /\ error = NoError

\* C2 witness: a finished run over a non-empty list all of whose intensities
\* are at or above the upper level.
C2_Witness ==
    /\ pc = "done" /\ TwoLevels /\ Len(isolist) >= 2
    /\ \A i \in 1..Len(isolist) : isolist[i].intens >= contour_levels[2]
    /\ output = <<FailureLine>>

\* C3: whenever an isophote is selected, the finished run has printed the
\* radius line carrying the selected isophote's semi-major axis, whatever that
\* axis is; the failure line is printed only when nothing was selected.
C3_ReportsSelectedRadius ==
    (pc = "done" /\ TwoLevels) =>
        /\ Matches # {} => output = <<RadiusLine(isolist[FirstMatch].sma)>>
        /\ output = <<FailureLine>> => Matches = {}

\* C4 (as claimed): for stretched data with min < max there are exactly 2
\* levels and min < level_low < level_high < max.
C4_LevelsStrictlyInside ==
    (Rendered /\ zmin < zmax) =>
        /\ Len(levels) = 2
        /\ zmin < levels[1] /\ levels[1] < levels[2] /\ levels[2] < zmax

\* C4 (amended): for stretched data with min < max there are exactly 2 levels,
\* each within two spacings of the floating-point numbers at max of
\* min + (max-min)/3 and min + 2(max-min)/3, with
\* min <= level_low <= level_high <= max; they are strictly ordered and
\* strictly inside (min, max) when max - min is at least 3 such spacings.
C4_LevelsRounded ==
    (Rendered /\ zmin < zmax) =>
        /\ Len(levels) = 2
        /\ zmin <= levels[1] /\ levels[1] <= levels[2] /\ levels[2] <= zmax
        /\ Abs(3 * levels[1] - (2 * zmin + zmax)) <= 6 * Quantum(zmax)
        /\ Abs(3 * levels[2] - (zmin + 2 * zmax)) <= 6 * Quantum(zmax)
        /\ zmax - zmin >= 3 * Quantum(zmax) =>
              (zmin < levels[1] /\ levels[1] < levels[2] /\ levels[2] < zmax)

\* C4 witness: an image whose two levels lie strictly inside (min, max).
C4_Witness ==
    /\ pc = "fit" /\ Len(levels) = 2
    /\ zmin < levels[1] /\ levels[1] < levels[2] /\ levels[2] < zmax

\* C5: the stages of main run at most once each and in the order resolve,
\* fetch, build canvas, render contours, fit ellipse, legend, show, print; the
\* position of main is always the stage after the last completed one, and the
\* single line of text is printed only after the display step has returned.
C5_StagesInOrder ==
    /\ Len(stages) <= Len(StageOrder)
    /\ \A i \in 1..Len(stages) : stages[i] = StageOrder[i]
    /\ pc # "aborted" => pc = (StageOrder \o <<"done">>)[Len(stages) + 1]
    /\ shown => Drawn("legend") # {}
    /\ output # <<>> => (shown /\ Len(output) = 1 /\ pc = "done")

\* C5 witness: a run that has gone through all eight stages.
C5_Witness == pc = "done" /\ stages = StageOrder /\ Len(output) = 1

\* C6: when the catalog has no match or the image service returns an empty
\* list, the error leaves main: no later stage has run, nothing is shown and
\* neither line is printed; a run that prints a line has met no error.
C6_FatalFailures ==
    /\ error # NoError <=> pc = "aborted"
    /\ pc = "aborted" => (output = <<>> /\ ~shown /\ Len(stages) < Len(StageOrder))
    /\ error = <<"LookupError", "resolve">> =>
          (stages = <<>> /\ coords = <<>> /\ data = <<>> /\ canvas = <<>>)
    /\ error = <<"IndexError", "fetch">> =>
          (stages = <<"resolve">> /\ data = <<>> /\ canvas = <<>> /\ sqrt_data = <<>>)
    /\ output # <<>> => error = NoError

\* C6 witness: the image service returned an empty list.
C6_Witness == pc = "aborted" /\ error = <<"IndexError", "fetch">> /\ coords # <<>>

\* C7 (as claimed): every stretched value is at least 1, and the stretch is
\* strictly increasing: d1 < d2 implies s(d1) < s(d2).
C7_StretchStrictlyMonotonic ==
    sqrt_data # <<>> =>
        \A i, j \in 1..Len(data) :
            /\ sqrt_data[i] >= One
            /\ data[i] < data[j] => sqrt_data[i] < sqrt_data[j]

\* C7 (amended): every stretched value is at least 1, and the stretch is
\* non-decreasing: d1 < d2 implies s(d1) <= s(d2).
C7_StretchMonotonic ==
    sqrt_data # <<>> =>
        \A i, j \in 1..Len(data) :
            /\ sqrt_data[i] >= One
            /\ data[i] < data[j] => sqrt_data[i] <= sqrt_data[j]

\* C7 witness: two different pixels stretched to two different values.
C7_Witness ==
    /\ sqrt_data # <<>>
    /\ data[1] < data[2] /\ sqrt_data[1] < sqrt_data[2] /\ sqrt_data[1] > One

\* C8: for a constant-intensity image the two levels are both equal to min and
\* plot_image_and_contours returns normally, so that main goes on to the fit.
C8_FlatImageRenders ==
    (Rendered /\ zmin = zmax) =>
        /\ levels = <<zmin, zmin>>
        /\ error = NoError
        /\ pc # "aborted"

\* C10: the canvas carries an ellipse overlay if and only if an isophote was
\* selected: then exactly one boundary, that of the first isophote in the
\* band, one centre marker and one segment; with no radius returned, none.
C10_OverlayIffSelected ==
    /\ (PostFit /\ TwoLevels /\ Matches # {}) =>
          /\ Cardinality(Drawn("boundary")) = 1
          /\ Cardinality(Drawn("center")) = 1
          /\ Cardinality(Drawn("segment")) = 1
          /\ \A i \in Drawn("boundary") :
                canvas[i].arg = <<isolist[FirstMatch].intens, isolist[FirstMatch].sma>>
          /\ radius # None
    /\ (radius = None \/ (PostFit /\ TwoLevels /\ Matches = {})) =>
          Drawn("boundary") \cup Drawn("center") \cup Drawn("segment") = {}

\* C10 witness: a list of three isophotes of which the last two are in the
\* band, and a canvas with the one boundary of the second.
C10_Witness ==
    /\ pc = "legend" /\ TwoLevels /\ Len(isolist) = 3 /\ Matches = {2, 3}
    /\ Cardinality(Drawn("boundary")) = 1

====
